---------------------------- MODULE Spec2Model ----------------------------
(***************************************************************************)
(* Model of the feed entry pipeline of irc-rss-feed-bot                    *)
(* (src/ircrssfeedbot/feed.py): the retrying URL reader behind the TTL     *)
(* cache (Feed._url_entries), the per-feed transform chain                 *)
(* (Feed._entries), the deduplicator (Feed._dedupe_entries), and the       *)
(* delivery-history gate, new-feed cap and URL shortening                  *)
(* (Feed.unposted_entries, Feed.postable_entries).                         *)
(*                                                                         *)
(* Python strings are modelled as sequences of tokens (a token stands for  *)
(* a run of characters), FeedEntry objects live in a heap and are held by  *)
(* reference, and Python lists are heap objects too, so that in-place      *)
(* writes through one reference are seen through every other one.          *)
(***************************************************************************)
EXTENDS Integers, Sequences, FiniteSets, TLC

(***************************************************************************)
(* Bounds of the model.                                                    *)
(***************************************************************************)
\* longest title (in tokens) a whitelist annotation may produce
MaxTitleLen == 7
\* longest entry sequence of the stand-alone deduplicator runs
MaxLen == 3
\* the number of Feed objects the threads construct in all
MaxRuns == 3

(***************************************************************************)
(* Program constants.                                                      *)
(***************************************************************************)
\* config.READ_ATTEMPTS_MAX (its definition is not part of the sources)
READ_ATTEMPTS_MAX == 3
\* config.URL_CACHE_TTL, in clock ticks (its definition is not part of the
\* sources; the value is scaled down to a few ticks)
URL_CACHE_TTL == 2
\* config.MAX_POSTS_OF_NEW_FEED
MAX_POSTS_OF_NEW_FEED == 3
\* config.DEDUP_STRATEGY_DEFAULT
DEDUP_STRATEGY_DEFAULT == "channel"
\* config.NEW_FEED_POSTS_DEFAULT (its definition is not part of the sources)
NEW_FEED_POSTS_DEFAULT == "some"
\* config.NEW_FEED_POSTS_MAX: size class -> cap (its definition is not part
\* of the sources)
NEW_FEED_POSTS_MAX == [none |-> 0, some |-> MAX_POSTS_OF_NEW_FEED]

\* dict.get(key, default): an optional key is a sequence of at most one value
Get(opt, default) == IF opt = <<>> THEN default ELSE opt[1]

(***************************************************************************)
(* Strings: sequences of tokens.                                           *)
(***************************************************************************)
RECURSIVE Pow2(_)
\* 2 ** n
Pow2(n) == IF n = 0 THEN 1 ELSE 2 * Pow2(n - 1)

\* the smaller of two integers
Min(a, b) == IF a <= b THEN a ELSE b

\* str.startswith(prefix), for a one-token prefix
StartsWith(s, prefix) == Len(s) > 0 /\ s[1] = prefix

\* re.search(pattern, s) for a literal one-token pattern: the index of the
\* first match, 0 when there is none
Search(pattern, s) ==
    IF \E i \in 1..Len(s) : s[i] = pattern
    THEN CHOOSE i \in 1..Len(s) : s[i] = pattern /\ \A j \in 1..(i - 1) : s[j] # pattern
    ELSE 0

\* s.replace(old, new, 1): only the first occurrence of the token is replaced
ReplaceFirst(s, old, new) ==
    LET i == Search(old, s)
    IN  IF i = 0 THEN s ELSE [s EXCEPT ![i] = new]

RECURSIVE ReSub(_, _, _)
\* re.sub(pattern, repl, s): every occurrence of the token is replaced
ReSub(pattern, repl, s) ==
    IF s = <<>> THEN <<>>
    ELSE (IF Head(s) = pattern THEN repl ELSE <<Head(s)>>) \o ReSub(pattern, repl, Tail(s))

\* title[:span0] + '*' + title[span0:span1] + '*' + title[span1:], for the
\* one-token match at index i
Explain(title, i) ==
    SubSeq(title, 1, i - 1) \o <<"*", title[i], "*">> \o SubSeq(title, i + 1, Len(title))

(***************************************************************************)
(* FeedEntry values and the deduplicator.                                  *)
(***************************************************************************)
\* FeedEntry(title, long_url); short_url is empty except on a ShortenedFeedEntry
FeedEntry(title, long_url) == [title |-> title, long_url |-> long_url, short_url |-> <<>>]

\* ShortenedFeedEntry(title, long_url, short_url)
ShortenedFeedEntry(title, long_url, short_url) ==
    [title |-> title, long_url |-> long_url, short_url |-> short_url]

\* dict.fromkeys(keys), as the list of its keys: a key equal to one already
\* inserted is dropped and the dict keeps the first key object; vals[i] is
\* the value keys[i] is hashed and compared by (the long_url of an entry)
FromKeys(keys, vals) ==
    LET inserted == SelectSeq([i \in 1..Len(keys) |-> i],
                              LAMBDA i : \A j \in 1..(i - 1) : vals[j] # vals[i])
    IN  [k \in 1..Len(inserted) |-> keys[inserted[k]]]

\* the keys with, of equal ones, the last occurrence kept (used by a mutant)
DedupeKeysKeepLast(keys, vals) ==
    LET keep == {i \in 1..Len(keys) : \A j \in (i + 1)..Len(keys) : vals[j] # vals[i]}
        idx == SelectSeq([i \in 1..Len(keys) |-> i], LAMBDA i : i \in keep)
    IN  [k \in 1..Len(idx) |-> keys[idx[k]]]

\* list(dict.fromkeys(entries))
DedupeKeys(keys, vals) == FromKeys(keys, vals)

(***************************************************************************)
(* The feeds, their configuration and the documents the network serves.    *)
(***************************************************************************)
\* the logical feeds, each read by a thread of its own
Feeds == {"A", "B"}
FeedOrder == <<"A", "B">>
\* the physical URLs
URLs == {"u1", "u2"}
URLOrder == <<"u1", "u2">>
\* both feeds post to one channel
Channel == "#c"

\* format_str.get(key, '{key}'): a template is a sequence of literal tokens
\* and parameter references
Lit(tok) == [kind |-> "lit", v |-> tok]
Param(name) == [kind |-> "param", v |-> name]

\* a feed configuration with every optional key absent
CfgPlain ==
    [whitelist |-> <<>>, blacklist |-> <<>>, https |-> <<>>, sub |-> <<>>,
     format |-> <<>>, new |-> <<>>, dedup |-> <<>>, shorten |-> <<>>]

\* https: true, sub: {url: {pattern: x, repl: y}}, dedup: feed, shorten: false
CfgHttpsSub ==
    [CfgPlain EXCEPT !.https = <<TRUE>>,
                     !.sub = <<[title |-> <<>>, url |-> <<[pattern |-> "x", repl |-> <<"y">>]>>]>>,
                     !.dedup = <<"feed">>, !.shorten = <<FALSE>>]

\* https: true, shorten: false
CfgHttps == [CfgPlain EXCEPT !.https = <<TRUE>>, !.shorten = <<FALSE>>]

\* whitelist: {title: [foo], explain: true}, shorten: false
CfgExplain ==
    [CfgPlain EXCEPT !.whitelist = <<[title |-> <<"foo">>, url |-> <<>>, explain |-> TRUE]>>,
                     !.shorten = <<FALSE>>]

\* blacklist: {url: [2]}, new: none, dedup: feed
CfgBlack ==
    [CfgPlain EXCEPT !.blacklist = <<[title |-> <<>>, url |-> <<"2">>]>>,
                     !.new = <<"none">>, !.dedup = <<"feed">>]

\* format: {re: {url: 'x(?P<id>.)'}, str: {url: 'http://z{id}'}}, shorten: false
CfgFormat ==
    [CfgPlain EXCEPT !.format = <<[re |-> [title |-> <<>>,
                                           url |-> <<[after |-> "x", group |-> "id"]>>],
                                   str |-> [title |-> <<>>,
                                            url |-> <<(<<Lit("http://"), Lit("z"), Param("id")>>)>>]]>>,
                     !.shorten = <<FALSE>>]

\* dedup: global (neither 'channel' nor 'feed'), shorten: false
CfgDedupOther == [CfgPlain EXCEPT !.dedup = <<"global">>, !.shorten = <<FALSE>>]

\* https: true, sub: {title: {pattern: foo, repl: baz}, url: {pattern: x, repl: y}},
\* format: {re: {url: 'y(?P<id>.)'}, str: {title: '{id}{title}'}}, shorten: false
CfgSubFormat ==
    [CfgPlain EXCEPT !.https = <<TRUE>>,
                     !.sub = <<[title |-> <<[pattern |-> "foo", repl |-> <<"baz">>]>>,
                                url |-> <<[pattern |-> "x", repl |-> <<"y">>]>>]>>,
                     !.format = <<[re |-> [title |-> <<>>,
                                           url |-> <<[after |-> "y", group |-> "id"]>>],
                                   str |-> [title |-> <<(<<Param("id"), Param("title")>>)>>,
                                            url |-> <<>>]]>>,
                     !.shorten = <<FALSE>>]

ConfigOrder == <<CfgPlain, CfgHttps, CfgHttpsSub, CfgExplain, CfgBlack, CfgFormat>>

\* the feeds of a run: feed A with configuration number i, feed B with
\* configuration number j, reading urlA and urlB
Scenario(i, urlA, j, urlB) ==
    [A |-> [url |-> urlA, conf |-> ConfigOrder[i]],
     B |-> [url |-> urlB, conf |-> ConfigOrder[j]]]

\* two unfiltered feeds, on one URL or on two
ReadScenarios == {Scenario(1, "u1", 1, url) : url \in URLs}

\* every two configurations (the feeds are alike, so in one order only) on
\* one URL
ChainScenarios ==
    {Scenario(p[1], url, p[2], url) :
        p \in {q \in (1..Len(ConfigOrder)) \X (1..Len(ConfigOrder)) : q[1] <= q[2]},
        url \in URLs}

\* the posts the Database file holds when the bot starts: none, or an older
\* post of feed A
Histories == {{}, {<<Channel, "A", <<"https://", "x", "0">>>>}}

\* a parsed document entry, e['title'] and e['link']
Raw(title, link) == [title |-> title, link |-> link]

\* the documents a URL may serve, as feedparser.parse(content)['entries']
DocDup ==
    << Raw(<<"hello", "foo", "bar">>, <<"http://", "x", "1">>),
       Raw(<<"hello", "foo", "bar">>, <<"http://", "x", "1">>),
       Raw(<<"two">>, <<"http://", "x", "2">>) >>
DocFour ==
    << Raw(<<"foo">>, <<"http://", "x", "1">>),
       Raw(<<"bar">>, <<"https://", "x", "1">>),
       Raw(<<"two">>, <<"http://", "x", "2">>),
       Raw(<<"three">>, <<"https://", "y", "3">>) >>
\* the documents a read of url may return
Served(url) == IF url = "u1" THEN {DocDup} ELSE {DocFour}

(***************************************************************************)
(* State.                                                                  *)
(***************************************************************************)
VARIABLES
    cfg,        \* config.INSTANCE['feeds'][channel][name], with the feed's url
    mem,        \* the heap: FeedEntry objects, list objects and who holds them
    cacheAge,   \* per URL, the ticks since a result was last stored (up to the TTL)
    pc,         \* per feed, where its thread stands
    num,        \* per feed, num_attempt of the running read (0: no read yet)
    sleepLeft,  \* per feed, the ticks left of time.sleep
    db,         \* the posts the Database has recorded: <<channel, feed, long_url>>
    answer,     \* per feed, the long_urls the Database returned to unposted_entries
    fetched,    \* per URL, the entry values of the result last stored, as stored
    prevFailed, \* per feed, whether its previous read raised
    runs,       \* the number of Feed constructions begun
    shortener,  \* per feed, the calls of shorten_urls its postable_entries made
    d_entries,  \* stand-alone deduplicator run: the argument
    d_result,   \* stand-alone deduplicator run: the value returned
    d_pc        \* stand-alone deduplicator run: "call" or "returned"

vars == <<cfg, mem, cacheAge, pc, num, sleepLeft, db, answer, fetched, prevFailed, runs,
          shortener, d_entries, d_result, d_pc>>

(***************************************************************************)
(* The heap.  mem.objs[o] is FeedEntry object o, mem.lists[l] is list      *)
(* object l (a sequence of object ids); a reference 0 is None.             *)
(* mem.cache[u] is the list the TTL cache holds for u, mem.entries[f] the  *)
(* list bound to `entries` in _entries and then to self.entries,           *)
(* mem.unposted[f] and mem.postable[f] the values of the cached            *)
(* properties.  After every step unreachable objects are dropped and the   *)
(* ids renumbered in order of first reach, so that ids carry no history.   *)
(***************************************************************************)
RECURSIVE Concat(_)
\* the concatenation of a sequence of sequences
Concat(ss) == IF ss = <<>> THEN <<>> ELSE Head(ss) \o Concat(Tail(ss))

\* the elements of s in order of first occurrence
Unique(s) == FromKeys(s, s)

\* the index of the first x in s
IndexOf(s, x) == CHOOSE i \in 1..Len(s) : s[i] = x /\ \A j \in 1..(i - 1) : s[j] # x

\* the list objects of heap m that the cache or a feed holds, in order of
\* first reach (the sequence is bound through a singleton set, so that it is
\* evaluated once)
ListOrder(m) ==
    CHOOSE r \in {Unique(SelectSeq(roots, LAMBDA l : l # 0)) :
                     roots \in {[i \in 1..Len(URLOrder) |-> m.cache[URLOrder[i]]]
                                \o [i \in 1..Len(FeedOrder) |-> m.entries[FeedOrder[i]]]}} : TRUE

\* the objects of heap m held by the lists lorder or by a feed's cached
\* properties, in order of first reach
ObjOrder(m, lorder) ==
    CHOOSE r \in {Unique(roots) :
                     roots \in {Concat([i \in 1..Len(lorder) |-> m.lists[lorder[i]]])
                                \o Concat([i \in 1..Len(FeedOrder) |->
                                              m.unposted[FeedOrder[i]]
                                              \o m.postable[FeedOrder[i]]])}} : TRUE

\* heap m restricted to the lists lorder and the objects oorder, list l
\* renamed to its index in lorder and object o to its index in oorder
Renumbered(m, lorder, oorder) ==
    LET newL(l) == IF l = 0 THEN 0 ELSE IndexOf(lorder, l)
        newO(o) == IndexOf(oorder, o)
        ren(s) == [k \in 1..Len(s) |-> newO(s[k])]
    IN  [objs |-> [i \in 1..Len(oorder) |-> m.objs[oorder[i]]],
         lists |-> [i \in 1..Len(lorder) |-> ren(m.lists[lorder[i]])],
         cache |-> [u \in URLs |-> newL(m.cache[u])],
         entries |-> [f \in Feeds |-> newL(m.entries[f])],
         unposted |-> [f \in Feeds |-> ren(m.unposted[f])],
         postable |-> [f \in Feeds |-> ren(m.postable[f])]]

\* garbage collection and renumbering of a heap
Canon(m) ==
    CHOOSE r \in UNION {UNION {{Renumbered(v, lorder, oorder) :
                                   oorder \in {ObjOrder(v, lorder)}} :
                               lorder \in {ListOrder(v)}} :
                        v \in {m}} : TRUE

\* the values (title, long_url, short_url) of a sequence of object ids
Values(m, ids) == [k \in 1..Len(ids) |-> m.objs[ids[k]]]

\* the long_urls of a sequence of object ids
LongUrls(m, ids) == [k \in 1..Len(ids) |-> m.objs[ids[k]].long_url]

\* the values of list object l, <<>> for None
ListValues(m, l) == IF l = 0 THEN <<>> ELSE Values(m, m.lists[l])

\* a heap with new objects vs appended, and their ids
AllocObjs(m, vs) == [m EXCEPT !.objs = m.objs \o vs]
NewIds(m, n) == [k \in 1..n |-> Len(m.objs) + k]

\* a heap with a new list object appended (its id is Len(m.lists) + 1)
AllocList(m, ids) == [m EXCEPT !.lists = Append(m.lists, ids)]

(***************************************************************************)
(* FeedEntry.is_listed and the stages of Feed._entries, as functions of    *)
(* the heap m, the feed f and the stage's configuration.                   *)
(***************************************************************************)
\* the first pattern of the list that re.search finds in val: the match's
\* index, 0 when no pattern matches
FirstMatch(patterns, val) ==
    IF \E i \in 1..Len(patterns) : Search(patterns[i], val) # 0
    THEN LET i == CHOOSE k \in 1..Len(patterns) :
                      /\ Search(patterns[k], val) # 0
                      /\ \A j \in 1..(k - 1) : Search(patterns[j], val) = 0
         IN  Search(patterns[i], val)
    ELSE 0

\* FeedEntry.is_listed(searchlist): the title is searched before the url;
\* key "" stands for None
IsListed(e, searchlist) ==
    LET t == FirstMatch(searchlist.title, e.title)
        u == FirstMatch(searchlist.url, e.long_url)
    IN  IF t # 0 THEN [key |-> "title", at |-> t]
        ELSE IF u # 0 THEN [key |-> "url", at |-> u]
        ELSE [key |-> "", at |-> 0]

\* the list object bound to `entries` of feed f, as object ids
Entries(m, f) == m.lists[m.entries[f]]

\* `entries` of feed f rebound to a new list object holding ids
Rebind(m, f, ids) ==
    [AllocList(m, ids) EXCEPT !.entries[f] = Len(m.lists) + 1]

\* "Keep only whitelisted entries": the surviving objects in a new list; with
\* explain, a title match is wrapped in '*' in the object itself
WhitelistStage(m, f, whitelist) ==
    LET kept == SelectSeq(Entries(m, f), LAMBDA o : IsListed(m.objs[o], whitelist).key # "")
        W[i \in 0..Len(kept)] ==
            IF i = 0 THEN [objs |-> m.objs, out |-> <<>>]
            ELSE LET prev == W[i - 1]
                     o == kept[i]
                     is_listed == IsListed(prev.objs[o], whitelist)
                 IN  IF is_listed.key = "" THEN prev
                     ELSE [objs |-> IF whitelist.explain /\ is_listed.key = "title"
                                    THEN [prev.objs EXCEPT ![o].title = Explain(@, is_listed.at)]
                                    ELSE prev.objs,
                           out |-> Append(prev.out, o)]
        done == W[Len(kept)]
    IN  Rebind([m EXCEPT !.objs = done.objs], f, done.out)

\* "Remove blacklisted entries": the unlisted objects in a new list
BlacklistStage(m, f, blacklist) ==
    Rebind(m, f, SelectSeq(Entries(m, f), LAMBDA o : IsListed(m.objs[o], blacklist).key = ""))

\* "Enforce HTTPS URLs": entry.long_url is assigned in the object itself
HttpsStage(m, f) ==
    LET ids == Entries(m, f)
        H[i \in 0..Len(ids)] ==
            IF i = 0 THEN m.objs
            ELSE LET objs == H[i - 1]
                 IN  IF StartsWith(objs[ids[i]].long_url, "http://")
                     THEN [objs EXCEPT
                              ![ids[i]].long_url = ReplaceFirst(@, "http://", "https://")]
                     ELSE objs
    IN  [m EXCEPT !.objs = H[Len(ids)]]

\* re_sub(v, r): re.sub(r['pattern'], r['repl'], v) if r else v
re_sub(v, r) == IF r = <<>> THEN v ELSE ReSub(r[1].pattern, r[1].repl, v)

\* "Substitute entries": new FeedEntry objects in a new list
SubStage(m, f, sub) ==
    LET ids == Entries(m, f)
        vs == [k \in 1..Len(ids) |->
                  FeedEntry(re_sub(m.objs[ids[k]].title, sub.title),
                            re_sub(m.objs[ids[k]].long_url, sub.url))]
    IN  Rebind(AllocObjs(m, vs), f, NewIds(m, Len(ids)))

\* re.search(format_re[key], val).groupdict() for a pattern `after` followed
\* by a one-token named group; the empty function when there is no match
GroupDict(re, val) ==
    IF \E i \in 1..(Len(val) - 1) : val[i] = re.after
    THEN LET i == CHOOSE k \in 1..(Len(val) - 1) :
                      val[k] = re.after /\ \A j \in 1..(k - 1) : val[j] # re.after
         IN  re.group :> <<val[i + 1]>>
    ELSE <<>>

\* params of one entry: title and url, updated with the named groups found
\* in the title, then with those found in the url
FormatParams(e, format_re) ==
    LET params0 == [title |-> e.title, url |-> e.long_url]
        params1 == IF format_re.title = <<>> THEN params0
                   ELSE GroupDict(format_re.title[1], e.title) @@ params0
    IN  IF format_re.url = <<>> THEN params1
        ELSE GroupDict(format_re.url[1], e.long_url) @@ params1

\* template.format_map(params) needs every referenced parameter (KeyError)
Renders(template, params) ==
    \A k \in 1..Len(template) : template[k].kind = "param" => template[k].v \in DOMAIN params

\* template.format_map(params)
Render(template, params) ==
    Concat([k \in 1..Len(template) |->
               IF template[k].kind = "lit" THEN <<template[k].v>> ELSE params[template[k].v]])

\* a mutant of FormatStage: the parameters are taken from the entries as
\* the cache holds them, not from the entries the stage is given
FormatStageFromCache(m, f, format_config) ==
    LET l == m.entries[f]
        snapshot == m.lists[l]
        cached == m.lists[m.cache[cfg[f].url]]
        title_t == Get(format_config.str.title, <<Param("title")>>)
        url_t == Get(format_config.str.url, <<Param("url")>>)
        G[i \in 0..Len(snapshot)] ==
            IF i = 0 THEN [m |-> m, ok |-> TRUE]
            ELSE LET prev == G[i - 1]
                     params == FormatParams(prev.m.objs[cached[i]], format_config.re)
                 IN  IF ~prev.ok THEN prev
                     ELSE IF ~(Renders(title_t, params) /\ Renders(url_t, params))
                     THEN [prev EXCEPT !.ok = FALSE]
                     ELSE [m |-> [AllocObjs(prev.m, <<FeedEntry(Render(title_t, params),
                                                                 Render(url_t, params))>>)
                                     EXCEPT !.lists[l][i] = Len(prev.m.objs) + 1],
                           ok |-> TRUE]
    IN  G[Len(snapshot)]

\* "Format entries": entries[index] is assigned a new FeedEntry, in the list
\* object `entries` is bound to; a KeyError ends the loop (ok is FALSE)
FormatStage(m, f, format_config) ==
    LET l == m.entries[f]
        snapshot == m.lists[l]
        title_t == Get(format_config.str.title, <<Param("title")>>)
        url_t == Get(format_config.str.url, <<Param("url")>>)
        G[i \in 0..Len(snapshot)] ==
            IF i = 0 THEN [m |-> m, ok |-> TRUE]
            ELSE LET prev == G[i - 1]
                     params == FormatParams(prev.m.objs[snapshot[i]], format_config.re)
                 IN  IF ~prev.ok THEN prev
                     ELSE IF ~(Renders(title_t, params) /\ Renders(url_t, params))
                     THEN [prev EXCEPT !.ok = FALSE]
                     ELSE [m |-> [AllocObjs(prev.m, <<FeedEntry(Render(title_t, params),
                                                                 Render(url_t, params))>>)
                                     EXCEPT !.lists[l][i] = Len(prev.m.objs) + 1],
                           ok |-> TRUE]
    IN  G[Len(snapshot)]

\* a mutant of DedupeEntries: of equal entries the last one is kept
DedupeEntriesKeepLast(m, l) ==
    LET entries == m.lists[l]
        entries_deduped == DedupeKeysKeepLast(entries, LongUrls(m, entries))
    IN  IF Len(entries) - Len(entries_deduped) > 0
        THEN [m |-> AllocList(m, entries_deduped), l |-> Len(m.lists) + 1]
        ELSE [m |-> m, l |-> l]

\* Feed._dedupe_entries(entries) for list object l: the list itself when
\* nothing is removed, else a new list; [m: the heap, l: the list returned]
DedupeEntries(m, l) ==
    LET entries == m.lists[l]
        entries_deduped == DedupeKeys(entries, LongUrls(m, entries))
    IN  IF Len(entries) - Len(entries_deduped) > 0
        THEN [m |-> AllocList(m, entries_deduped), l |-> Len(m.lists) + 1]
        ELSE [m |-> m, l |-> l]

\* "Dedupe entries again"
DedupeStage(m, f) ==
    LET r == DedupeEntries(m, m.entries[f])
    IN  [r.m EXCEPT !.entries[f] = r.l]

(***************************************************************************)
(* The TTL cache around Feed._url_entries (cachetools.func.ttl_cache): the *)
(* wrapper looks the key up under its lock, calls the function outside     *)
(* the lock on a miss, and stores the value under the lock, keeping an     *)
(* item that another caller stored in the meantime.                        *)
(***************************************************************************)
\* a mutant of Expired: an item is still served when its age is the TTL
ExpiredLate(age) == ~(age <= URL_CACHE_TTL)

\* TTLCache: an item is expired once timer() reaches its expiry time
Expired(age) == ~(age < URL_CACHE_TTL)

\* cache[k] succeeds: the TTL cache holds an unexpired item for url
CacheValid(m, url) == m.cache[url] # 0

\* the wrapper's cache.setdefault(k, v) for the list l that the function
\* returned: [m: the heap, l: the list the wrapper returns, stored: whether
\* l became the cache item]
CacheStore(m, url, l) ==
    IF CacheValid(m, url)
    THEN [m |-> m, l |-> m.cache[url], stored |-> FALSE]
    ELSE [m |-> [m EXCEPT !.cache[url] = l], l |-> l, stored |-> TRUE]

\* "Parse entries" and "Dedupe entries" of _url_entries for the document
\* fetched: [m: the heap, l: the list returned]
ParseEntries(m, doc) ==
    LET vs == [k \in 1..Len(doc) |-> FeedEntry(doc[k].title, doc[k].link)]
    IN  DedupeEntries(AllocList(AllocObjs(m, vs), NewIds(m, Len(doc))), Len(m.lists) + 1)

(***************************************************************************)
(* Where a thread stands.  "idle", "done" and the two error states are     *)
(* between two Feed constructions ("shorten_error": postable_entries       *)
(* raised in "Shorten URLs"); "attempt" and "sleep" are inside the         *)
(* read loop of _url_entries; the stage names are inside _entries, each    *)
(* before the stage named; "constructed" is a Feed whose __post_init__ has *)
(* returned; "ready" has unposted_entries and postable_entries.            *)
(***************************************************************************)
Resting == {"idle", "done", "fetch_error", "config_error", "shorten_error"}
Stages == <<"whitelist", "blacklist", "https", "sub", "format">>

\* whether the stage's `if` of _entries is taken for configuration c
Configured(c, stage) ==
    CASE stage = "whitelist" -> c.whitelist # <<>>
      [] stage = "blacklist" -> c.blacklist # <<>>
      [] stage = "https" -> Get(c.https, FALSE)
      [] stage = "sub" -> c.sub # <<>>
      [] stage = "format" -> c.format # <<>>

\* the first configured stage after stage number k, "dedupe" when none is
StageAfter(c, k) ==
    IF \E j \in (k + 1)..Len(Stages) : Configured(c, Stages[j])
    THEN Stages[CHOOSE j \in (k + 1)..Len(Stages) :
                    /\ Configured(c, Stages[j])
                    /\ \A i \in (k + 1)..(j - 1) : ~Configured(c, Stages[i])]
    ELSE "dedupe"

\* the network read of feed f is under way
InFlight(f) == pc[f] \in {"attempt", "sleep"}

(***************************************************************************)
(* Actions of the thread of feed f.                                        *)
(***************************************************************************)
\* Feed.__post_init__ up to the cache lookup of _url_entries(self.url)
Lookup(f) ==
    LET url == cfg[f].url
        fresh == [mem EXCEPT !.entries[f] = 0, !.unposted[f] = <<>>, !.postable[f] = <<>>]
    IN  /\ pc[f] \in Resting
        /\ runs < MaxRuns
        /\ runs' = runs + 1
        /\ prevFailed' = [prevFailed EXCEPT ![f] = (pc[f] = "fetch_error")]
        /\ answer' = [answer EXCEPT ![f] = <<>>]
        /\ shortener' = [shortener EXCEPT ![f] = <<>>]
        /\ IF CacheValid(fresh, url)
           THEN /\ mem' = Canon([fresh EXCEPT !.entries[f] = fresh.cache[url]])
                /\ pc' = [pc EXCEPT ![f] = StageAfter(cfg[f].conf, 0)]
                /\ num' = [num EXCEPT ![f] = 0]
           ELSE /\ mem' = Canon(fresh)
                /\ pc' = [pc EXCEPT ![f] = "attempt"]
                /\ num' = [num EXCEPT ![f] = 1]
        /\ UNCHANGED <<cfg, cacheAge, sleepLeft, db, fetched, d_entries, d_result, d_pc>>

\* a mutant of AfterFailure: the error is raised one attempt later
AfterFailureOneMore(n) ==
    IF n = READ_ATTEMPTS_MAX + 1
    THEN [pc |-> "fetch_error", sleep |-> 0]
    ELSE [pc |-> "sleep", sleep |-> Pow2(n)]

\* what follows a failed attempt: the error is raised after the last
\* attempt, else the thread sleeps 2 ** num_attempt
AfterFailure(n) ==
    IF n = READ_ATTEMPTS_MAX
    THEN [pc |-> "fetch_error", sleep |-> 0]
    ELSE [pc |-> "sleep", sleep |-> Pow2(n)]

\* a mutant of AttemptFail: the final failure is stored in the cache as an
\* empty result
AttemptFailCaching(f) ==
    LET url == cfg[f].url
        last == AfterFailure(num[f]).pc = "fetch_error"
    IN  /\ pc[f] = "attempt"
        /\ pc' = [pc EXCEPT ![f] = AfterFailure(num[f]).pc]
        /\ sleepLeft' = [sleepLeft EXCEPT ![f] = AfterFailure(num[f]).sleep]
        /\ mem' = IF last
                  THEN Canon([AllocList(mem, <<>>) EXCEPT !.cache[url] = Len(mem.lists) + 1])
                  ELSE mem
        /\ cacheAge' = IF last THEN [cacheAge EXCEPT ![url] = 0] ELSE cacheAge
        /\ UNCHANGED <<cfg, num, db, answer, fetched, prevFailed,
                       runs, shortener,
                       d_entries, d_result, d_pc>>

\* requests.get or raise_for_status raises a RequestException
AttemptFail(f) ==
    /\ pc[f] = "attempt"
    /\ pc' = [pc EXCEPT ![f] = AfterFailure(num[f]).pc]
    /\ sleepLeft' = [sleepLeft EXCEPT ![f] = AfterFailure(num[f]).sleep]
    /\ UNCHANGED <<cfg, mem, cacheAge, num, db, answer, fetched, prevFailed,
                   runs, shortener,
                       d_entries, d_result, d_pc>>

\* time.sleep returns: the next iteration of the loop
Wake(f) ==
    /\ pc[f] = "sleep"
    /\ sleepLeft[f] = 0
    /\ pc' = [pc EXCEPT ![f] = "attempt"]
    /\ num' = [num EXCEPT ![f] = num[f] + 1]
    /\ UNCHANGED <<cfg, mem, cacheAge, sleepLeft, db, answer, fetched, prevFailed,
                   runs, shortener,
                       d_entries, d_result, d_pc>>

\* the attempt succeeds: the content is parsed and deduplicated, the wrapper
\* stores the list and _entries goes on with the list the wrapper returns
AttemptOk(f) ==
    \E doc \in Served(cfg[f].url) :
        LET url == cfg[f].url
            parsed == ParseEntries(mem, doc)
            st == CacheStore(parsed.m, url, parsed.l)
        IN  /\ pc[f] = "attempt"
            /\ mem' = Canon([st.m EXCEPT !.entries[f] = st.l])
            /\ cacheAge' = IF st.stored THEN [cacheAge EXCEPT ![url] = 0] ELSE cacheAge
            /\ fetched' = IF st.stored
                          THEN [fetched EXCEPT ![url] = ListValues(parsed.m, parsed.l)]
                          ELSE fetched
            /\ pc' = [pc EXCEPT ![f] = StageAfter(cfg[f].conf, 0)]
            /\ UNCHANGED <<cfg, num, sleepLeft, db, answer, prevFailed,
                           runs, shortener,
                       d_entries, d_result, d_pc>>

\* one stage of _entries
Stage(f) ==
    LET c == cfg[f].conf
        after(k) == StageAfter(c, k)
    IN  /\ \/ /\ pc[f] = "whitelist"
              /\ LET m2 == WhitelistStage(mem, f, c.whitelist[1])
                 IN  /\ \A o \in 1..Len(m2.objs) : Len(m2.objs[o].title) <= MaxTitleLen
                     /\ mem' = Canon(m2)
              /\ pc' = [pc EXCEPT ![f] = after(1)]
           \/ /\ pc[f] = "blacklist"
              /\ mem' = Canon(BlacklistStage(mem, f, c.blacklist[1]))
              /\ pc' = [pc EXCEPT ![f] = after(2)]
           \/ /\ pc[f] = "https"
              /\ mem' = Canon(HttpsStage(mem, f))
              /\ pc' = [pc EXCEPT ![f] = after(3)]
           \/ /\ pc[f] = "sub"
              /\ mem' = Canon(SubStage(mem, f, c.sub[1]))
              /\ pc' = [pc EXCEPT ![f] = after(4)]
           \/ /\ pc[f] = "format"
              /\ LET r == FormatStage(mem, f, c.format[1])
                 IN  /\ mem' = Canon(IF r.ok THEN r.m ELSE [r.m EXCEPT !.entries[f] = 0])
                     /\ pc' = [pc EXCEPT ![f] = IF r.ok THEN "dedupe" ELSE "config_error"]
           \/ /\ pc[f] = "dedupe"
              /\ mem' = Canon(DedupeStage(mem, f))
              /\ pc' = [pc EXCEPT ![f] = "constructed"]
        /\ UNCHANGED <<cfg, cacheAge, num, sleepLeft, db, answer, fetched, prevFailed,
                       runs, shortener,
                       d_entries, d_result, d_pc>>

(***************************************************************************)
(* The collaborators: the Database (delivery history) and the shortener.   *)
(***************************************************************************)
\* Database.is_new_feed(channel, feed): no post is recorded for the feed
is_new_feed(posts, channel, feed) ==
    ~\E r \in posts : r[1] = channel /\ r[2] = feed

\* Database.select_unposted_for_channel: the urls no feed has posted to the
\* channel, as a set
select_unposted_for_channel(posts, channel, feed, urls) ==
    {urls[k] : k \in {i \in 1..Len(urls) : ~\E r \in posts : r[1] = channel /\ r[3] = urls[i]}}

\* Database.select_unposted_for_channel_feed: the urls this feed has not
\* posted to the channel, as a set
select_unposted_for_channel_feed(posts, channel, feed, urls) ==
    {urls[k] : k \in {i \in 1..Len(urls) : <<channel, feed, urls[i]>> \notin posts}}

\* the sequence s reversed
Reverse(s) == [k \in 1..Len(s) |-> s[Len(s) + 1 - k]]

\* the lists in which the Database may return the set unposted of the urls
\* asked for: in the order asked, or reversed with an element repeated
Answers(urls, unposted) ==
    LET base == SelectSeq(urls, LAMBDA u : u \in unposted)
    IN  {base, Reverse(base) \o SubSeq(base, 1, Min(1, Len(base)))}

\* url_shortener.shorten_urls(long_urls): one short URL per long URL, in order
shorten_urls(long_urls) == [k \in 1..Len(long_urls) |-> <<"short">> \o long_urls[k]]

\* what a call shorten_urls(long_urls) may give: the short URLs; and, of a
\* shortener that is not reliable, an exception, a list one short or a list
\* one long
ShortenerReplies(long_urls, reliable) ==
    LET short_urls == shorten_urls(long_urls)
        proper == [raised |-> FALSE, urls |-> short_urls]
    IN  IF reliable THEN {proper}
        ELSE {proper,
              [raised |-> TRUE, urls |-> <<>>],
              [raised |-> FALSE, urls |-> SubSeq(short_urls, 1, Len(short_urls) - 1)],
              [raised |-> FALSE, urls |-> Append(short_urls, <<"short", "extra">>)]}

(***************************************************************************)
(* Feed.unposted_entries and Feed.postable_entries.                        *)
(***************************************************************************)
\* a mutant of SelectUnposted: the two strategies call each other's query
SelectUnpostedSwapped(posts, f, dedup_strategy, long_urls) ==
    IF dedup_strategy = "channel"
    THEN select_unposted_for_channel_feed(posts, Channel, f, long_urls)
    ELSE select_unposted_for_channel(posts, Channel, f, long_urls)

\* the Database call of unposted_entries: the set of unposted long_urls
SelectUnposted(posts, f, dedup_strategy, long_urls) ==
    IF dedup_strategy = "channel"
    THEN select_unposted_for_channel(posts, Channel, f, long_urls)
    ELSE select_unposted_for_channel_feed(posts, Channel, f, long_urls)

\* a mutant of UnpostedOf: the entries are taken in the order of the answer
UnpostedOfAnswerOrder(m, f, long_urls) ==
    Concat([k \in 1..Len(long_urls) |->
               SelectSeq(Entries(m, f), LAMBDA o : m.objs[o].long_url = long_urls[k])])

\* entries = [entry for entry in entries if entry.long_url in long_urls],
\* for the list long_urls the Database returned
UnpostedOf(m, f, long_urls) ==
    LET returned == {long_urls[k] : k \in 1..Len(long_urls)}
    IN  SelectSeq(Entries(m, f), LAMBDA o : m.objs[o].long_url \in returned)

\* a mutant of NewFeedCap: the cap is applied whether the feed is new or not
NewFeedCapAlways(entries, is_new, new) ==
    SubSeq(entries, 1, Min(Len(entries), NEW_FEED_POSTS_MAX[Get(new, NEW_FEED_POSTS_DEFAULT)]))

\* entries[:max_posts] for a new feed, entries otherwise
NewFeedCap(entries, is_new, new) ==
    IF is_new
    THEN SubSeq(entries, 1, Min(Len(entries), NEW_FEED_POSTS_MAX[Get(new, NEW_FEED_POSTS_DEFAULT)]))
    ELSE entries

\* a mutant of Shorten: the shorten flag of the feed is not looked at
ShortenAlways(m, f, entries, shorten, reply) ==
    IF entries # <<>>
    THEN LET short_urls == reply.urls
             calls == <<[long_urls |-> LongUrls(m, entries), reply |-> reply]>>
             vs == [i \in 1..Len(entries) |->
                       ShortenedFeedEntry(m.objs[entries[i]].title,
                                          m.objs[entries[i]].long_url, short_urls[i])]
         IN  IF reply.raised \/ Len(short_urls) < Len(entries)
             THEN [m |-> m, ok |-> FALSE, calls |-> calls]
             ELSE [m |-> [AllocObjs(m, vs) EXCEPT !.postable[f] = NewIds(m, Len(entries))],
                   ok |-> TRUE, calls |-> calls]
    ELSE [m |-> [m EXCEPT !.postable[f] = entries], ok |-> TRUE, calls |-> <<>>]

\* "Shorten URLs" for the reply the shortener gives when it is called: new
\* ShortenedFeedEntry objects when there are entries and shorten is not
\* false; [m: the heap with postable[f] set, ok: FALSE when shorten_urls or
\* short_urls[i] raised, calls: the calls of shorten_urls made]
Shorten(m, f, entries, shorten, reply) ==
    IF entries # <<>> /\ Get(shorten, TRUE)
    THEN LET short_urls == reply.urls
             calls == <<[long_urls |-> LongUrls(m, entries), reply |-> reply]>>
             vs == [i \in 1..Len(entries) |->
                       ShortenedFeedEntry(m.objs[entries[i]].title,
                                          m.objs[entries[i]].long_url, short_urls[i])]
         IN  IF reply.raised \/ Len(short_urls) < Len(entries)
             THEN [m |-> m, ok |-> FALSE, calls |-> calls]
             ELSE [m |-> [AllocObjs(m, vs) EXCEPT !.postable[f] = NewIds(m, Len(entries))],
                   ok |-> TRUE, calls |-> calls]
    ELSE [m |-> [m EXCEPT !.postable[f] = entries], ok |-> TRUE, calls |-> <<>>]

\* whether `assert dedup_strategy == 'feed'` is executed and fails: an
\* assert statement is executed unless the interpreter runs optimised
\* (python -O, PYTHONOPTIMIZE), which removes it
AssertFails(dedup_strategy) ==
    IF dedup_strategy \in {"channel", "feed"} THEN {FALSE} ELSE {TRUE, FALSE}

\* Feed.postable_entries of a constructed Feed, with the unposted_entries
\* it evaluates first, with a shortener that is reliable or not; an unknown
\* dedup strategy fails the assertion, when the assertion is executed
Postable(f, reliable) ==
    LET c == cfg[f].conf
        dedup_strategy == Get(c.dedup, DEDUP_STRATEGY_DEFAULT)
        long_urls == LongUrls(mem, Entries(mem, f))
    IN  /\ pc[f] = "constructed"
        /\ \E failed \in AssertFails(dedup_strategy) :
           IF ~failed
           THEN \E a \in Answers(long_urls, SelectUnposted(db, f, dedup_strategy, long_urls)) :
                    LET unposted == UnpostedOf(mem, f, a)
                        entries == NewFeedCap(unposted, is_new_feed(db, Channel, f), c.new)
                        m1 == [mem EXCEPT !.unposted[f] = unposted]
                    IN  \E reply \in ShortenerReplies(LongUrls(mem, entries), reliable) :
                            LET r == Shorten(m1, f, entries, c.shorten, reply)
                            IN  /\ answer' = [answer EXCEPT ![f] = a]
                                /\ shortener' = [shortener EXCEPT ![f] = r.calls]
                                /\ mem' = Canon(r.m)
                                /\ pc' = [pc EXCEPT ![f] = IF r.ok THEN "ready"
                                                           ELSE "shorten_error"]
           ELSE /\ pc' = [pc EXCEPT ![f] = "config_error"]
                /\ UNCHANGED <<mem, answer, shortener>>
        /\ UNCHANGED <<cfg, cacheAge, num, sleepLeft, db, fetched, prevFailed,
                       runs, d_entries, d_result, d_pc>>

\* Feed.postable_entries with a shortener that answers every call properly
PostableEntries(f) == Postable(f, TRUE)

\* Feed.postable_entries with a shortener that may fail
PostableEntriesUnreliable(f) == Postable(f, FALSE)

\* the bot posts the postable entries and records them as posted
Deliver(f) ==
    LET ids == mem.postable[f]
    IN  /\ pc[f] = "ready"
        /\ db' = db \cup {<<Channel, f, mem.objs[ids[k]].long_url>> : k \in 1..Len(ids)}
        /\ pc' = [pc EXCEPT ![f] = "done"]
        /\ UNCHANGED <<cfg, mem, cacheAge, num, sleepLeft, answer, fetched, prevFailed,
                       runs, shortener,
                       d_entries, d_result, d_pc>>

\* the clock advances by one tick: cache items age and expire, sleeps run down
Tick ==
    LET live(u) == mem.cache[u] # 0 /\ ~Expired(cacheAge[u] + 1)
    IN  /\ cacheAge' = [u \in URLs |-> IF fetched[u] # <<>>
                                        THEN Min(cacheAge[u] + 1, URL_CACHE_TTL) ELSE 0]
        /\ mem' = Canon([mem EXCEPT !.cache = [u \in URLs |-> IF live(u) THEN mem.cache[u] ELSE 0]])
        /\ sleepLeft' = [f \in Feeds |-> IF sleepLeft[f] > 0 THEN sleepLeft[f] - 1 ELSE 0]
        /\ UNCHANGED <<cfg, pc, num, db, answer, fetched, prevFailed, runs,
                       shortener,
                       d_entries, d_result, d_pc>>

(***************************************************************************)
(* The specification of the running bot.                                   *)
(***************************************************************************)
EmptyMem ==
    [objs |-> <<>>, lists |-> <<>>, cache |-> [u \in URLs |-> 0],
     entries |-> [f \in Feeds |-> 0], unposted |-> [f \in Feeds |-> <<>>],
     postable |-> [f \in Feeds |-> <<>>]]

\* the state when the bot starts with the feeds scenario and the posts posts
Start(scenario, posts) ==
    /\ cfg = scenario
    /\ mem = EmptyMem
    /\ cacheAge = [u \in URLs |-> 0]
    /\ pc = [f \in Feeds |-> "idle"]
    /\ num = [f \in Feeds |-> 0]
    /\ sleepLeft = [f \in Feeds |-> 0]
    /\ db = posts
    /\ answer = [f \in Feeds |-> <<>>]
    /\ fetched = [u \in URLs |-> <<>>]
    /\ prevFailed = [f \in Feeds |-> FALSE]
    /\ runs = 0
    /\ shortener = [f \in Feeds |-> <<>>]
    /\ d_entries = <<>>
    /\ d_result = <<>>
    /\ d_pc = "returned"

Init == \E scenario \in ReadScenarios : Start(scenario, {})

Next ==
    \/ \E f \in Feeds : Lookup(f)
    \/ \E f \in Feeds : AttemptFail(f)
    \/ \E f \in Feeds : Wake(f)
    \/ \E f \in Feeds : AttemptOk(f)
    \/ \E f \in Feeds : Stage(f)
    \/ \E f \in Feeds : PostableEntries(f)
    \/ \E f \in Feeds : Deliver(f)
    \/ Tick

\* two unfiltered feeds whose reads may fail
Spec == Init /\ [][Next]_vars

(***************************************************************************)
(* The reads alone: the threads call _url_entries and stop when it has     *)
(* returned; a thread whose read raised calls again.  The clock advances,  *)
(* a request ends (it succeeds, fails or times out after REQUEST_TIMEOUT)  *)
(* and a sleep returns.                                                    *)
(***************************************************************************)
NextRead ==
    \/ \E f \in Feeds : Lookup(f)
    \/ \E f \in Feeds : AttemptFail(f)
    \/ \E f \in Feeds : Wake(f)
    \/ \E f \in Feeds : AttemptOk(f)
    \/ Tick

Fairness ==
    /\ WF_vars(Tick)
    /\ \A f \in Feeds : WF_vars(Wake(f)) /\ WF_vars(AttemptFail(f) \/ AttemptOk(f))

SpecRead == Init /\ [][NextRead]_vars /\ Fairness

(***************************************************************************)
(* The transform chain and the gate: feeds of every configuration, a       *)
(* Database with or without older posts, and a network that answers every  *)
(* request.                                                                *)
(***************************************************************************)
InitChain == \E scenario \in ChainScenarios, posts \in Histories : Start(scenario, posts)

NextChain ==
    \/ \E f \in Feeds : Lookup(f)
    \/ \E f \in Feeds : AttemptOk(f)
    \/ \E f \in Feeds : Stage(f)
    \/ \E f \in Feeds : PostableEntries(f)
    \/ \E f \in Feeds : Deliver(f)
    \/ Tick

SpecChain == InitChain /\ [][NextChain]_vars

(***************************************************************************)
(* The same with a shortener that may fail: feeds that shorten (the plain  *)
(* one), that do not (https) and that release nothing when new (the        *)
(* blacklisting one).                                                      *)
(***************************************************************************)
ShortenScenarios ==
    {Scenario(i, url, j, url) : i \in {1}, j \in {1, 2, 5}, url \in URLs}

InitShorten ==
    \E scenario \in ShortenScenarios, posts \in Histories : Start(scenario, posts)

NextShorten ==
    \/ \E f \in Feeds : Lookup(f)
    \/ \E f \in Feeds : AttemptOk(f)
    \/ \E f \in Feeds : Stage(f)
    \/ \E f \in Feeds : PostableEntriesUnreliable(f)
    \/ \E f \in Feeds : Deliver(f)
    \/ Tick

SpecShorten == InitShorten /\ [][NextShorten]_vars

(***************************************************************************)
(* A feed with https, sub and format next to a plain feed, to one that     *)
(* rewrites URLs or titles in place, or to a second such feed.             *)
(***************************************************************************)
FormatScenarios ==
    {[A |-> [url |-> url, conf |-> CfgSubFormat], B |-> [url |-> url, conf |-> conf]] :
        conf \in {CfgPlain, CfgHttps, CfgExplain, CfgSubFormat}, url \in URLs}

InitFormat == \E scenario \in FormatScenarios, posts \in Histories : Start(scenario, posts)

SpecFormat == InitFormat /\ [][NextChain]_vars

(***************************************************************************)
(* The gate of a feed whose dedup value is neither 'channel' nor 'feed',   *)
(* next to a plain feed or a second such feed.                             *)
(***************************************************************************)
GateScenarios ==
    {[A |-> [url |-> url, conf |-> conf], B |-> [url |-> url, conf |-> CfgDedupOther]] :
        conf \in {CfgPlain, CfgDedupOther}, url \in URLs}

InitGate == \E scenario \in GateScenarios, posts \in Histories : Start(scenario, posts)

SpecGate == InitGate /\ [][NextChain]_vars

(***************************************************************************)
(* Stand-alone calls of Feed._dedupe_entries on every short sequence of    *)
(* entries over two titles and three URLs.                                 *)
(***************************************************************************)
DedupeTitles == {<<"a">>, <<"b">>}
DedupeUrls == {<<"p">>, <<"q">>, <<"r">>}
DedupeInputs ==
    UNION {[1..n -> {FeedEntry(t, u) : t \in DedupeTitles, u \in DedupeUrls}] : n \in 0..MaxLen}

\* Feed._dedupe_entries(d_entries), called on a list of new objects
DedupeCall ==
    LET m0 == [EmptyMem EXCEPT !.objs = d_entries,
                               !.lists = <<[k \in 1..Len(d_entries) |-> k]>>]
        r == DedupeEntries(m0, 1)
    IN  /\ d_pc = "call"
        /\ d_result' = ListValues(r.m, r.l)
        /\ d_pc' = "returned"
        /\ UNCHANGED <<cfg, mem, cacheAge, pc, num, sleepLeft, db, answer, fetched,
                       prevFailed, runs, shortener, d_entries>>

InitDedupe ==
    /\ cfg = Scenario(1, "u1", 1, "u1")
    /\ mem = EmptyMem
    /\ cacheAge = [u \in URLs |-> 0]
    /\ pc = [f \in Feeds |-> "idle"]
    /\ num = [f \in Feeds |-> 0]
    /\ sleepLeft = [f \in Feeds |-> 0]
    /\ db = {}
    /\ answer = [f \in Feeds |-> <<>>]
    /\ fetched = [u \in URLs |-> <<>>]
    /\ prevFailed = [f \in Feeds |-> FALSE]
    /\ runs = 0
    /\ shortener = [f \in Feeds |-> <<>>]
    /\ d_entries \in DedupeInputs
    /\ d_result = <<>>
    /\ d_pc = "call"

NextDedupe == DedupeCall

SpecDedupe == InitDedupe /\ [][NextDedupe]_vars

(***************************************************************************)
(* C6.  The deduplicator returns exactly the first occurrence of each      *)
(* distinct long_url, in the original relative order, whatever the titles. *)
(***************************************************************************)
\* the indices of s whose long_url occurs at no earlier index
FirstOccurrences(s) ==
    {i \in 1..Len(s) : \A j \in 1..(i - 1) : s[j].long_url # s[i].long_url}

\* C6: the value returned is the argument restricted to the first occurrence
\* of each long_url: as many elements as there are first occurrences, the
\* k-th one being the entry (title included) at the k-th first occurrence
C6_DedupeFirstOccurrences ==
    d_pc = "returned" =>
        LET first == FirstOccurrences(d_entries)
        IN  /\ Len(d_result) = Cardinality(first)
            /\ \A i \in first :
                   d_result[Cardinality({j \in first : j <= i})] = d_entries[i]

\* two entries with one long_url and two titles: the earlier one is returned
C6_Witness ==
    /\ d_pc = "returned"
    /\ d_entries = <<FeedEntry(<<"a">>, <<"p">>), FeedEntry(<<"b">>, <<"q">>),
                     FeedEntry(<<"b">>, <<"p">>)>>
    /\ d_result = <<FeedEntry(<<"a">>, <<"p">>), FeedEntry(<<"b">>, <<"q">>)>>

(***************************************************************************)
(* C1.  Concurrent callers of _url_entries for one URL.                    *)
(***************************************************************************)
\* the feeds whose thread is performing a network attempt for url
Fetching(url) == {f \in Feeds : cfg[f].url = url /\ pc[f] = "attempt"}

\* C1: at any time at most one network fetch per physical URL is in flight;
\* concurrent callers for one URL share the single fetch or wait behind it
C1_AtMostOneFetchInFlight ==
    \A url \in URLs : Cardinality(Fetching(url)) <= 1

(***************************************************************************)
(* C2.  The cache item of a URL and the transform chains of the feeds.     *)
(***************************************************************************)
\* C2: the cache item of a URL, while the cache holds it, has exactly the
\* titles, long_urls and order that parse-then-dedupe produced when it was
\* fetched, whatever transform chains have run since
C2_CacheItemIsWhatWasFetched ==
    \A url \in URLs :
        mem.cache[url] # 0 => ListValues(mem, mem.cache[url]) = fetched[url]

(***************************************************************************)
(* C3.  Sequential calls of _url_entries and the TTL.                      *)
(***************************************************************************)
\* a successfully fetched result for url, younger than the TTL, is stored
FreshResult(url) == fetched[url] # <<>> /\ cacheAge[url] < URL_CACHE_TTL

\* feed f is constructed in this step: its thread calls _url_entries
Calls(f) == pc[f] \in Resting /\ pc'[f] \notin Resting

\* no other thread is inside _url_entries for the URL of f
Sequential(f) == \A g \in Feeds \ {f} : cfg[g].url = cfg[f].url => ~InFlight(g)

\* C3: a call that overlaps no other call for the URL goes to the network if
\* and only if no successfully fetched result younger than the TTL is stored
\* for the URL; on a hit the feed starts from the stored result
C3_FetchIffNoFreshResult ==
    [][\A f \in Feeds :
          Calls(f) /\ Sequential(f) =>
              /\ (pc'[f] = "attempt") <=> ~FreshResult(cfg[f].url)
              /\ FreshResult(cfg[f].url) =>
                     /\ mem'.entries[f] = mem'.cache[cfg[f].url]
                     /\ mem'.entries[f] # 0]_vars

\* feed A fetched u1 once and delivered, feed B was then served from the
\* stored result within the TTL (it made no attempt), the result then
\* expired and feed A is fetching u1 again
C3_Witness ==
    /\ cfg["A"].url = cfg["B"].url
    /\ pc["B"] = "done" /\ num["B"] = 0
    /\ pc["A"] = "attempt" /\ num["A"] = 1
    /\ runs = 3
    /\ fetched[cfg["A"].url] # <<>> /\ ~FreshResult(cfg["A"].url)

(***************************************************************************)
(* C4.  A read that fails after the last attempt.                          *)
(***************************************************************************)
\* the thread of f raises out of _url_entries in this step
Raises(f) == pc[f] = "attempt" /\ pc'[f] = "fetch_error"

\* what the cache holds for url in heap m: whether there is an item, and
\* its entry values
CacheContent(m, url) == <<m.cache[url] # 0, ListValues(m, m.cache[url])>>

\* C4: a read that fails after the last attempt is raised to the caller (the
\* Feed has no entries) and stores nothing: the cache holds for every URL
\* what it held before, no result is recorded, no age is reset; and the next
\* call for the URL, when no other thread has stored a result for it, makes
\* a first attempt again
C4_FailureIsNotCached ==
    [][\A f \in Feeds :
          /\ Raises(f) =>
                 /\ mem'.entries[f] = 0
                 /\ \A url \in URLs : CacheContent(mem', url) = CacheContent(mem, url)
                 /\ fetched' = fetched
                 /\ cacheAge' = cacheAge
          /\ pc[f] = "fetch_error" /\ Calls(f) /\ ~FreshResult(cfg[f].url) =>
                 pc'[f] = "attempt" /\ num'[f] = 1]_vars

\* the read of feed A for u1 failed after the last attempt; the next call of
\* feed A fetched u1 at the first attempt and returned; the cache holds for
\* u2 exactly what feed B fetched
C4_Witness ==
    /\ cfg["A"].url = "u1" /\ cfg["B"].url = "u2"
    /\ prevFailed["A"] /\ num["A"] = 1 /\ pc["A"] = "constructed"
    /\ mem.cache["u1"] # 0
    /\ mem.cache["u2"] # 0 /\ ListValues(mem, mem.cache["u2"]) = fetched["u2"]
    /\ num["B"] = 1 /\ runs = 3

(***************************************************************************)
(* C5.  The read loop of _url_entries.                                     *)
(***************************************************************************)
\* one step of the thread of feed f, seen from the read loop
ReadLoopStep(f) ==
    /\ InFlight(f) => num[f] \in 1..READ_ATTEMPTS_MAX
    \* an attempt ends in success, in a sleep or in the error
    /\ pc[f] = "attempt" /\ pc'[f] # "attempt" =>
           \/ /\ pc'[f] = "sleep"
              /\ num[f] < READ_ATTEMPTS_MAX
              /\ num'[f] = num[f]
              /\ sleepLeft'[f] = Pow2(num[f])
           \/ /\ pc'[f] = "fetch_error"
              /\ num[f] = READ_ATTEMPTS_MAX
              /\ mem'.entries[f] = 0
           \/ /\ pc'[f] \notin {"sleep", "fetch_error"}
              /\ ~InFlight(f)'
              /\ mem'.entries[f] # 0
    \* a sleep lasts until its time has run down, tick by tick, and is
    \* followed by the next attempt
    /\ pc[f] = "sleep" =>
           \/ pc'[f] = "sleep" /\ num'[f] = num[f] /\ sleepLeft'[f] = sleepLeft[f]
           \/ pc'[f] = "sleep" /\ num'[f] = num[f] /\ sleepLeft'[f] = sleepLeft[f] - 1
           \/ pc'[f] = "attempt" /\ num'[f] = num[f] + 1 /\ sleepLeft[f] = 0
    \* a read begins with attempt 1, and only a call begins a read
    /\ ~InFlight(f) /\ InFlight(f)' => Calls(f) /\ pc'[f] = "attempt" /\ num'[f] = 1

\* C5: a read makes at most READ_ATTEMPTS_MAX attempts; it ends at the first
\* successful attempt; after failed attempt n < READ_ATTEMPTS_MAX the thread
\* sleeps 2^n ticks and makes attempt n + 1; after failed attempt
\* READ_ATTEMPTS_MAX the error is raised at once; and every read ends
C5_ReadLoop ==
    /\ [][\A f \in Feeds : ReadLoopStep(f)]_vars
    /\ \A f \in Feeds : InFlight(f) ~> ~InFlight(f)

\* the read of feed A has failed READ_ATTEMPTS_MAX times, with the sleeps in
\* between, and has raised; the next read succeeded at its second attempt
C5_Witness ==
    /\ prevFailed["A"]
    /\ num["A"] = 2
    /\ ~InFlight("A")
    /\ mem.entries["A"] # 0

(***************************************************************************)
(* C7.  The two scopes of the delivery-history gate.                       *)
(***************************************************************************)
\* unposted_entries of feed f is evaluated in this step
Gates(f) == pc[f] = "constructed" /\ pc'[f] = "ready"

\* the dedup scope of feed f
Scope(f) == Get(cfg[f].conf.dedup, DEDUP_STRATEGY_DEFAULT)

\* the long_urls the gate of feed f is given, and those it lets through
GateInput(f) == {mem.objs[o].long_url : o \in {Entries(mem, f)[k] : k \in 1..Len(Entries(mem, f))}}
GateOutput(f) == {mem.objs[mem.unposted[f][k]].long_url : k \in 1..Len(mem.unposted[f])}
Suppressed(f, url) == url \notin GateOutput(f)'
Released(f, url) == url \in GateOutput(f)'

\* C7: a long_url recorded as delivered under feed A on the channel is
\* suppressed for feed A under both scopes; for another feed B on the channel
\* it is suppressed when the scope of B is "channel" and released when the
\* scope of B is "feed" and B has not delivered it
C7_DedupScopes ==
    [][\A f \in Feeds :
          Gates(f) =>
              \A url \in GateInput(f) :
                  /\ <<Channel, f, url>> \in db => Suppressed(f, url)
                  /\ \A g \in Feeds \ {f} :
                         <<Channel, g, url>> \in db =>
                             /\ Scope(f) = "channel" => Suppressed(f, url)
                             /\ Scope(f) = "feed" /\ <<Channel, f, url>> \notin db =>
                                    Released(f, url)]_vars

\* feed A, of scope "channel", has delivered a long_url and its gate has
\* suppressed it in a second run; the gate of feed B, of scope "feed", has
\* released the same long_url
C7_Witness ==
    /\ pc["A"] = "ready" /\ pc["B"] = "ready"
    /\ Scope("A") = "channel" /\ Scope("B") = "feed"
    /\ \E url \in GateInput("A") \cap GateInput("B") :
           /\ <<Channel, "A", url>> \in db
           /\ <<Channel, "B", url>> \notin db
           /\ url \notin GateOutput("A")
           /\ url \in GateOutput("B")

(***************************************************************************)
(* C8.  The order of the gate's result.                                    *)
(***************************************************************************)
\* the elements of the sequence s
Range(s) == {s[k] : k \in 1..Len(s)}

\* out is the sequence in restricted to the indices idx, in the order of in
IsRestriction(out, in, idx) ==
    /\ Len(out) = Cardinality(idx)
    /\ \A i \in idx : out[Cardinality({j \in idx : j <= i})] = in[i]

\* C8: the gate's result is its input restricted to the entries whose
\* long_url the Database returned, in the order of the input, whatever the
\* order of the answer and however often a long_url occurs in it
C8_GateKeepsInputOrder ==
    [][\A f \in Feeds :
          Gates(f) =>
              LET in == Values(mem, Entries(mem, f))
                  returned == Range(answer'[f])
              IN  IsRestriction(Values(mem', mem'.unposted[f]), in,
                                {i \in 1..Len(in) : in[i].long_url \in returned})]_vars

\* the Database answered feed B in another order than the input's and with
\* a repetition; the gate has suppressed an entry and released two
C8_Witness ==
    /\ pc["B"] = "ready"
    /\ Len(mem.unposted["B"]) >= 2
    /\ Len(mem.unposted["B"]) < Len(Entries(mem, "B"))
    /\ Len(answer["B"]) > Len(mem.unposted["B"])
    /\ answer["B"][1] = mem.objs[mem.unposted["B"][Len(mem.unposted["B"])]].long_url
    /\ Values(mem, mem.unposted["B"]) =
           SelectSeq(Values(mem, Entries(mem, "B")),
                     LAMBDA e : e.long_url \in Range(answer["B"]))

(***************************************************************************)
(* C9.  The cap on the entries released for a new feed.                    *)
(***************************************************************************)
\* the titles and long_urls of a sequence of object ids
TitlesAndUrls(m, ids) ==
    [k \in 1..Len(ids) |-> <<m.objs[ids[k]].title, m.objs[ids[k]].long_url>>]

\* the Database has no post of feed f on the channel
ReportedNew(f) == \A r \in db : ~(r[1] = Channel /\ r[2] = f)

\* the cap the table gives for the size class of feed f
Cap(f) == NEW_FEED_POSTS_MAX[Get(cfg[f].conf.new, NEW_FEED_POSTS_DEFAULT)]

\* C9: for a feed reported new, postable_entries releases the first
\* min(n, cap) of the n unposted entries, in their order; for a feed not
\* reported new it releases all n
C9_NewFeedCap ==
    [][\A f \in Feeds :
          Gates(f) =>
              LET unposted == TitlesAndUrls(mem', mem'.unposted[f])
                  released == TitlesAndUrls(mem', mem'.postable[f])
                  n == Len(unposted)
              IN  IF ReportedNew(f)
                  THEN released = SubSeq(unposted, 1, IF n <= Cap(f) THEN n ELSE Cap(f))
                  ELSE released = unposted]_vars

\* feed A is new and has more unposted entries than the cap of its size
\* class: the first MAX_POSTS_OF_NEW_FEED of them are released
C9_Witness ==
    /\ pc["A"] = "ready"
    /\ ReportedNew("A")
    /\ Len(mem.unposted["A"]) > Cap("A") /\ Cap("A") = MAX_POSTS_OF_NEW_FEED
    /\ Len(mem.postable["A"]) = MAX_POSTS_OF_NEW_FEED
    /\ TitlesAndUrls(mem, mem.postable["A"]) =
           SubSeq(TitlesAndUrls(mem, mem.unposted["A"]), 1, MAX_POSTS_OF_NEW_FEED)

(***************************************************************************)
(* C10.  The HTTPS stage comes before the substitution stage.              *)
(***************************************************************************)
\* feed f has https enabled and a sub rule on the url
HttpsAndUrlSub(f) ==
    /\ Configured(cfg[f].conf, "https")
    /\ Configured(cfg[f].conf, "sub")
    /\ cfg[f].conf.sub[1].url # <<>>

\* C10: with https enabled and a sub rule on the url, no entry reaches the
\* substitution stage with a long_url that starts with 'http://': the
\* stage's input is the URL already rewritten to 'https://'
C10_SubSeesHttps ==
    \A f \in Feeds :
        pc[f] = "sub" /\ HttpsAndUrlSub(f) =>
            \A k \in 1..Len(Entries(mem, f)) :
                ~StartsWith(mem.objs[Entries(mem, f)[k]].long_url, "http://")

(***************************************************************************)
(* C11.  Whitelist explain.                                                *)
(***************************************************************************)
\* the thread of feed f runs its whitelist stage in this step
WhitelistStep(f) == pc[f] = "whitelist" /\ pc'[f] # "whitelist"

\* the titles parsed from the documents url serves
ParsedTitles(url) == UNION {{doc[k].title : k \in 1..Len(doc)} : doc \in Served(url)}

\* the parsed titles of url that a title pattern matches, each with the
\* matched span wrapped in one pair of '*'
ExplainedTitles(url, whitelist) ==
    {Explain(t, FirstMatch(whitelist.title, t)) :
        t \in {p \in ParsedTitles(url) : FirstMatch(whitelist.title, p) # 0}}

\* C11: with explain set, every entry that a title pattern let through
\* leaves the whitelist stage with its parsed title, the matched span
\* wrapped in one pair of '*', in every run of the feed
C11_ExplainWrapsOnce ==
    [][\A f \in Feeds :
          WhitelistStep(f) /\ cfg[f].conf.whitelist[1].explain =>
              \A k \in 1..Len(Entries(mem', f)) :
                  LET e == mem'.objs[Entries(mem', f)[k]]
                  IN  FirstMatch(cfg[f].conf.whitelist[1].title, e.title) # 0 =>
                          e.title \in ExplainedTitles(cfg[f].url, cfg[f].conf.whitelist[1])]_vars

(***************************************************************************)
(* C12.  A shortener that fails or answers with another number of URLs.    *)
(***************************************************************************)
\* the reply of a call of shorten_urls is a failure: an exception, or a
\* list whose length is not the number of long URLs passed
FailedCall(call) ==
    call.reply.raised \/ Len(call.reply.urls) # Len(call.long_urls)

\* C12: when the shortener's call failed, postable_entries has failed and
\* the Feed has no postable entries
C12_ShortenerFailureRaises ==
    \A f \in Feeds :
        \A k \in 1..Len(shortener[f]) :
            FailedCall(shortener[f][k]) =>
                pc[f] = "shorten_error" /\ mem.postable[f] = <<>>

(***************************************************************************)
(* C13.  When and how the shortener is called.                             *)
(***************************************************************************)
\* postable_entries of feed f is computed in this step (it returns or raises)
Computes(f) == pc[f] = "constructed" /\ pc'[f] \in {"ready", "shorten_error"}

\* the unposted entries of feed f after the new-feed cap, as object ids
Capped(f) ==
    LET unposted == mem.unposted[f]
        n == Len(unposted)
    IN  IF ReportedNew(f) THEN SubSeq(unposted, 1, IF n <= Cap(f) THEN n ELSE Cap(f))
        ELSE unposted

\* C13: in one computation of postable_entries the shortener is called if
\* and only if the shorten flag is true (the default) and the entries after
\* the new-feed cap are not empty; it is then called once, with the
\* long_urls of all those entries in order, and postable entry i has short
\* URL i of the reply and the title and long_url of entry i; when it is not
\* called the entries are returned as they are
C13_ShortenerCalledOnce ==
    [][\A f \in Feeds :
          Computes(f) =>
              LET entries == Capped(f)'
                  calls == shortener'[f]
                  postable == Values(mem', mem'.postable[f])
              IN  IF Get(cfg[f].conf.shorten, TRUE) /\ entries # <<>>
                  THEN /\ Len(calls) = 1
                       /\ calls[1].long_urls = LongUrls(mem', entries)
                       /\ pc'[f] = "ready" =>
                              /\ Len(postable) = Len(entries)
                              /\ \A i \in 1..Len(entries) :
                                     postable[i] =
                                         ShortenedFeedEntry(mem'.objs[entries[i]].title,
                                                            mem'.objs[entries[i]].long_url,
                                                            calls[1].reply.urls[i])
                  ELSE /\ calls = <<>>
                       /\ pc'[f] = "ready"
                       /\ mem'.postable[f] = entries]_vars

\* feed A shortens by default and has two entries after the cap: one call
\* with the two long_urls, and two postable entries with the two short URLs
C13_Witness ==
    /\ pc["A"] = "ready"
    /\ Get(cfg["A"].conf.shorten, TRUE)
    /\ Len(shortener["A"]) = 1
    /\ Len(mem.postable["A"]) = 2
    /\ shortener["A"][1].long_urls = LongUrls(mem, mem.postable["A"])
    /\ shortener["A"][1].reply = [raised |-> FALSE,
                                  urls |-> [i \in 1..2 |->
                                               mem.objs[mem.postable["A"][i]].short_url]]
    /\ mem.objs[mem.postable["A"][1]].short_url # mem.objs[mem.postable["A"][2]].short_url

StageReads(f) ==
    IF pc[f] \in Range(Stages) \cup {"dedupe"} THEN Range(Entries(mem, f)) ELSE {}

\* the entry objects the stage that feed f is executing assigns to: the
\* HTTPS stage to entry.long_url, the whitelist stage with explain to
\* entry.title
StageWrites(f) ==
    CASE pc[f] = "https" ->
             {o \in Range(Entries(mem, f)) : StartsWith(mem.objs[o].long_url, "http://")}
      [] pc[f] = "whitelist" /\ cfg[f].conf.whitelist[1].explain ->
             {o \in Range(Entries(mem, f)) :
                 IsListed(mem.objs[o], cfg[f].conf.whitelist[1]).key = "title"}
      [] OTHER -> {}

\* C15: no stage of one pipeline assigns to an entry object that a stage of
\* another running pipeline is reading or assigning to
C15_NoSharedObjectInTwoStages ==
    \A f \in Feeds : \A g \in Feeds \ {f} : StageWrites(f) \cap StageReads(g) = {}

(***************************************************************************)
(* C16.  End to end: duplicates, HTTPS, a new feed, no shortening.         *)
(***************************************************************************)
\* feed f has no filters, no sub and no format, https: true, shorten: false
\* and a cap of at least 2, and reads the URL that serves DocDup
HttpsOnly(f) ==
    /\ cfg[f].url = "u1"
    /\ \A k \in 1..Len(Stages) : Configured(cfg[f].conf, Stages[k]) <=> Stages[k] = "https"
    /\ ~Get(cfg[f].conf.shorten, TRUE)
    /\ Cap(f) >= 2

\* C16: for a new feed with https: true, no filters and shorten: false, and
\* an empty delivery history, the parsed entries (T1, http://x/1),
\* (T1, http://x/1), (T2, http://x/2) give the postable entries
\* (T1, https://x/1), (T2, https://x/2), which are also what the gate was
\* given and what the Database returned
C16_EndToEnd ==
    \A f \in Feeds :
        pc[f] = "ready" /\ HttpsOnly(f) /\ db = {} =>
            /\ TitlesAndUrls(mem, mem.postable[f]) =
                   << <<DocDup[1].title, <<"https://", "x", "1">> >>,
                      <<DocDup[3].title, <<"https://", "x", "2">> >> >>
            /\ Range(answer[f]) = {<<"https://", "x", "1">>, <<"https://", "x", "2">>}

(***************************************************************************)
(* C17.  A Feed is a snapshot.                                             *)
(***************************************************************************)
\* the Feed of f has been constructed and is in use
Constructed(f) == pc[f] \in {"constructed", "ready"}

\* C17: while a constructed Feed is in use, the titles, the long_urls and
\* the order of its entries do not change, whatever other Feeds are
\* constructed or processed
C17_FeedIsSnapshot ==
    [][\A f \in Feeds :
          Constructed(f) /\ Constructed(f)' =>
              ListValues(mem', mem'.entries[f]) = ListValues(mem, mem.entries[f])]_vars

(***************************************************************************)
(* C18.  The format stage works on the values the substitution stage left. *)
(***************************************************************************)
\* the thread of feed f runs its substitution stage, its format stage
SubStep(f) == pc[f] = "sub" /\ pc'[f] # "sub"
FormatStep(f) == pc[f] = "format" /\ pc'[f] # "format"

\* the entry the format stage makes of entry e: the templates rendered with
\* {title, url} of e overlaid with the groups extracted from them
Formatted(e, format_config) ==
    LET params == FormatParams(e, format_config.re)
    IN  FeedEntry(Render(Get(format_config.str.title, <<Param("title")>>), params),
                  Render(Get(format_config.str.url, <<Param("url")>>), params))

\* both templates of format_config can be rendered for entry e
CanFormat(e, format_config) ==
    LET params == FormatParams(e, format_config.re)
    IN  /\ Renders(Get(format_config.str.title, <<Param("title")>>), params)
        /\ Renders(Get(format_config.str.url, <<Param("url")>>), params)

\* C18: between the substitution stage and the format stage of a feed its
\* entries stay what the substitution stage made of them, and the format
\* stage extracts from, and renders with, the title and url of those
\* entries
C18_FormatUsesSubstituted ==
    [][\A f \in Feeds :
          LET c == cfg[f].conf
              in == ListValues(mem, mem.entries[f])
              out == ListValues(mem', mem'.entries[f])
          IN  /\ SubStep(f) =>
                     out = [i \in 1..Len(in) |->
                               FeedEntry(re_sub(in[i].title, c.sub[1].title),
                                         re_sub(in[i].long_url, c.sub[1].url))]
              /\ pc[f] = "format" /\ pc'[f] = "format" /\ Configured(c, "sub") => out = in
              /\ FormatStep(f) =>
                     IF \A i \in 1..Len(in) : CanFormat(in[i], c.format[1])
                     THEN /\ pc'[f] = "dedupe"
                          /\ out = [i \in 1..Len(in) |-> Formatted(in[i], c.format[1])]
                     ELSE pc'[f] = "config_error"]_vars

\* feed A has run its format stage on https://y/1 and https://y/2, the URLs
\* its substitution stage made of the parsed http://x/1 and http://x/2: the
\* group is extracted after the substituted 'y' and the title is rendered
\* from the substituted title
C18_Witness ==
    /\ pc["A"] = "dedupe"
    /\ cfg["A"].url = "u1"
    /\ ListValues(mem, mem.entries["A"]) =
           <<FeedEntry(<<"1", "hello", "baz", "bar">>, <<"https://", "y", "1">>),
             FeedEntry(<<"2", "two">>, <<"https://", "y", "2">>)>>

(***************************************************************************)
(* C19.  What is postable was returned as unposted; nothing is added or    *)
(* reordered after the gate.                                               *)
(***************************************************************************)
\* s is t with some elements left out
IsSubsequence(s, t) ==
    LET M[i \in 0..Len(s), j \in 0..Len(t)] ==
            IF i = 0 THEN TRUE
            ELSE IF j = 0 THEN FALSE
            ELSE (s[i] = t[j] /\ M[i - 1, j - 1]) \/ M[i, j - 1]
    IN  M[Len(s), Len(t)]

\* the long_urls of postable_entries, of unposted_entries and of the entries
\* of the Feed of f
PostableUrls(f) == LongUrls(mem, mem.postable[f])
UnpostedUrls(f) == LongUrls(mem, mem.unposted[f])
EntryUrls(f) == LongUrls(mem, Entries(mem, f))

\* C19: every entry of the postable_entries of a Feed has a long_url that
\* the Database returned as unposted in the one query of the run, and by
\* long_url and order postable_entries is a subsequence of unposted_entries,
\* which is a subsequence of the entries of the Feed
C19_PostableWasReturnedUnposted ==
    \A f \in Feeds :
        pc[f] = "ready" =>
            /\ Range(PostableUrls(f)) \subseteq Range(answer[f])
            /\ IsSubsequence(PostableUrls(f), UnpostedUrls(f))
            /\ IsSubsequence(UnpostedUrls(f), EntryUrls(f))

(***************************************************************************)
(* C20.  Every entry sequence handed on has pairwise distinct long_urls.   *)
(***************************************************************************)
\* no element occurs twice in the sequence s
Distinct(s) == \A i, j \in 1..Len(s) : s[i] = s[j] => i = j

\* the long_urls of the cache item of url
CachedUrls(url) == LongUrls(mem, mem.lists[mem.cache[url]])

\* C20: the sequence stored in the cache when it is stored, the entries of
\* a Feed when its construction ends, and its unposted_entries and
\* postable_entries when they are computed, have pairwise distinct
\* long_urls
C20_DistinctLongUrls ==
    [][/\ \A url \in URLs :
              mem.cache[url] = 0 /\ mem'.cache[url] # 0 => Distinct(CachedUrls(url))'
       /\ \A f \in Feeds :
              /\ pc[f] = "dedupe" /\ pc'[f] = "constructed" => Distinct(EntryUrls(f))'
              /\ Gates(f) => Distinct(UnpostedUrls(f))' /\ Distinct(PostableUrls(f))']_vars

=============================================================================
